---- MODULE Spec2Model ----
(***************************************************************************)
(* Task execution orchestrator of the coding-agent platform.               *)
(*                                                                         *)
(* One task row of the Task State Store, the trigger endpoint              *)
(* (POST /api/tasks/[taskId]/execute), the detached pipelines it schedules *)
(* (processTaskWithTimeout racing processTask against the deadline timer)  *)
(* and the stop endpoint (PATCH /api/tasks/[taskId], action = stop).       *)
(* Every await of the source that reads or writes the store or the         *)
(* environment is one step, so that requests, timers and pipelines         *)
(* interleave as they do on the event loop.                                *)
(***************************************************************************)
EXTENDS Integers, Sequences, FiniteSets, TLC

\* Bounds of the model.
MaxRuns == 2
MaxStops == 1
SoloRuns == 1
MaxPolls == 2

Runs == 1..MaxRuns
Stops == 1..MaxStops

\* The task row belongs to Owner; Other is a second authenticated user.
Owner == "V"
Other == "U"
NoUser == "none"
UserIds == {NoUser, Other, Owner}

\* The id of the task row and an id no row has.
TaskId == "T1"
MissingId == "T0"
TaskIds == {TaskId, MissingId}

Statuses == {"pending", "processing", "completed", "error", "stopped"}
Terminal == {"completed", "error", "stopped"}

\* Messages stored in the error column.
StoppedMsg == "Task was stopped by user"
TimeoutMsg == "Task execution timed out. The operation took too long to complete."
CauseMsg == "cause"
CreateFailedMsg == "Failed to create sandbox"
NoSandboxMsg == "Sandbox is not available for agent execution"
AgentFailedMsg == "Agent execution failed"
UnexpectedMsg == "An unexpected error occurred"

\* The error text a failing step supplies: its own text, or none.
ErrorTexts == {CauseMsg, "none"}

\* Every message processTask's catch block can store.
CatchMsgs == {CauseMsg, CreateFailedMsg, NoSandboxMsg, AgentFailedMsg, UnexpectedMsg}

\* The branch name an environment created without a predetermined name
\* chooses for itself, one per creation.
OwnBranchNames == <<"sandbox-1", "sandbox-2", "sandbox-3", "sandbox-4">>

\* Progress percentages the environment adapter reports through onProgress.
SandboxProgress == <<20, 40>>

VARIABLES
  cfg,       \* inputs of the task row and the deployment, fixed for a behaviour
  budget,    \* trigger requests the endpoint may still accept in this behaviour
  task,      \* the task row in the store
  pipe,      \* per scheduled pipeline: position and locals of the after() callback
  env,       \* per pipeline: the environment it created
  stop,      \* per stop request in flight: position of PATCH
  lastResp,  \* the response of the request handler that finished last
  quota,     \* the owner's daily limit and the tasks the owner created today
  repoPage   \* the last request to the user-repos endpoint and its response

vars == <<cfg, budget, task, pipe, env, stop, lastResp, quota, repoPage>>

NoResp == [op |-> "none", code |-> 0, log |-> "none"]
Resp(op, code) == [op |-> op, code |-> code, log |-> "none"]

\* aiKey: AI_GATEWAY_API_KEY is set; branchGenOk, titleGenOk: whether the
\* generation calls of this behaviour succeed; repoUrl, githubToken, keepAlive:
\* inputs of the task row and its owner; connectors: the owner has a
\* connected connector.
Configs ==
  [aiKey : BOOLEAN, branchGenOk : BOOLEAN, titleGenOk : BOOLEAN,
   repoUrl : BOOLEAN, githubToken : BOOLEAN, keepAlive : BOOLEAN,
   connectors : BOOLEAN]

FullConfig ==
  [aiKey |-> TRUE, branchGenOk |-> TRUE, titleGenOk |-> TRUE,
   repoUrl |-> TRUE, githubToken |-> TRUE, keepAlive |-> FALSE,
   connectors |-> TRUE]

StandaloneConfig ==
  [aiKey |-> FALSE, branchGenOk |-> FALSE, titleGenOk |-> FALSE,
   repoUrl |-> FALSE, githubToken |-> FALSE, keepAlive |-> TRUE,
   connectors |-> FALSE]

\* pc, wpc: positions of processTask and processTaskWithTimeout; deadline,
\* warn: the two timers; polls: iterations of waitForBranchName made;
\* aiBranchName, branchName, sandbox, mcpServers, sanitizedPrompt,
\* finalBranchName, commitMessage, err: locals of processTask; cb, wrote, checked, stopInFlight, sawStop, tw: history of the
\* run (progress callbacks made, last progress written, cancellation check
\* made since the last checkpoint, stop persisted during the agent
\* invocation, stopped observed, terminal statuses written).
IdlePipe ==
  [pc |-> "idle", wpc |-> "none", deadline |-> "unset", warn |-> "unset",
   polls |-> 0, aiBranchName |-> "none", branchName |-> "none",
   sandbox |-> FALSE, mcpServers |-> <<>>, sanitizedPrompt |-> <<>>,
   finalBranchName |-> "none", commitMessage |-> "none", err |-> "none",
   cb |-> 0, wrote |-> 0, checked |-> FALSE, stopInFlight |-> FALSE,
   sawStop |-> FALSE, tw |-> 0]

IdleStop == "idle"

\* Characters of a prompt, by name.
Backtick == "BACKTICK"
Dollar == "DOLLAR"
Backslash == "BACKSLASH"
Dash == "DASH"
Newline == "LF"
Apostrophe == "APOSTROPHE"
Space == "SPACE"

\* The prompt of the task of the pipeline specifications, as a sequence of
\* characters.
Prompt == <<Dash, "a", Backtick, Dollar, Newline, Dash, Backslash>>

\* A row as createTaskHandler inserts it.
NewTask ==
  [status |-> "pending", progress |-> 0, error |-> "none",
   completedAt |-> FALSE, branchName |-> "none", title |-> "none",
   sandboxId |-> 0, deletedAt |-> FALSE, prompt |-> Prompt,
   mcpServerIds |-> <<>>]

\* Rows an earlier process left in the store: a run that completed, failed,
\* or was stopped, and one whose pipeline died while processing.
StoredTasks ==
  { NewTask,
    [NewTask EXCEPT !.status = "processing", !.progress = 50],
    [NewTask EXCEPT !.status = "completed", !.progress = 100],
    [NewTask EXCEPT !.status = "error", !.progress = 50, !.error = CauseMsg],
    [NewTask EXCEPT !.status = "stopped", !.progress = 50, !.error = StoppedMsg,
                    !.completedAt = TRUE] }

\* The owner created no other task today; no user-repos request was made.
NoQuota == [limit |-> 1, created |-> <<>>, last |-> "none"]
NoRepoPage == [total |-> 0, page |-> 1, perPage |-> 1, code |-> 0, repos |-> <<>>]

\* The task, with no request made and no pipeline scheduled.
InitRun(configs, runs, rows) ==
  /\ cfg \in configs
  /\ budget = runs
  /\ task \in rows
  /\ pipe = [r \in Runs |-> IdlePipe]
  /\ env = [r \in Runs |-> "none"]
  /\ stop = [s \in Stops |-> IdleStop]
  /\ lastResp = NoResp

InitWith(configs, runs, rows) ==
  /\ InitRun(configs, runs, rows)
  /\ quota = NoQuota
  /\ repoPage = NoRepoPage

Init == InitWith({FullConfig, StandaloneConfig}, MaxRuns, StoredTasks)

----------------------------------------------------------------------------
\* Task State Store: update-fields through the task logger.

updateStatus(t, status, message) ==
  [t EXCEPT !.status = status,
            !.error = IF status = "error" THEN message ELSE @]

updateProgress(t, progress) == [t EXCEPT !.progress = progress]

\* isTaskStopped reporting a soft-deleted task as stopped.
isTaskStoppedOrDeleted == task.status = "stopped" \/ task.deletedAt

\* isTaskStopped: one read of the row.
isTaskStopped == task.status = "stopped"

\* stopObserved reporting stopped when the read fails.
stopObservedFailClosed(readOk) == ~readOk \/ isTaskStopped

\* What a call of isTaskStopped returns: the status read, or false when the
\* read throws.
stopObserved(readOk) == readOk /\ isTaskStopped

----------------------------------------------------------------------------
\* Trigger endpoint: POST /api/tasks/[taskId]/execute.

\* PostCode without the ownership check.
PostCodeAnyOwner(isInternal, userId, taskId) ==
  IF ~isInternal /\ userId = NoUser THEN 401
  ELSE IF taskId # TaskId THEN 404
  ELSE IF task.status # "pending" THEN 400
  ELSE 200

\* PostCode without the pending-only precondition.
PostCodeAnyStatus(isInternal, userId, taskId) ==
  IF ~isInternal /\ userId = NoUser THEN 401
  ELSE IF taskId # TaskId THEN 404
  ELSE IF userId # NoUser /\ Owner # userId THEN 401
  ELSE 200

\* The status code POST answers with, in the order the handler checks.
PostCode(isInternal, userId, taskId) ==
  IF ~isInternal /\ userId = NoUser THEN 401
  ELSE IF taskId # TaskId THEN 404
  ELSE IF userId # NoUser /\ Owner # userId THEN 401
  ELSE IF task.status # "pending" THEN 400
  ELSE 200

\* A rejected request: the response is the only effect.
PostReject(isInternal, userId, taskId) ==
  /\ PostCode(isInternal, userId, taskId) # 200
  /\ lastResp' = Resp("POST", PostCode(isInternal, userId, taskId))
  /\ UNCHANGED <<cfg, budget, task, pipe, env, stop, quota, repoPage>>

\* PostAccept awaiting the first step of the pipeline before it answers.
PostAcceptAwaiting(isInternal, userId, taskId, r) ==
  /\ PostCode(isInternal, userId, taskId) = 200
  /\ budget > 0
  /\ pipe[r].pc = "idle"
  /\ \A q \in Runs : q < r => pipe[q].pc # "idle"
  /\ budget' = budget - 1
  /\ task' = [task EXCEPT !.status = "processing"]
  /\ pipe' = [pipe EXCEPT ![r].pc = "prog10", ![r].wpc = "racing"]
  /\ lastResp' = Resp("POST", 200)
  /\ UNCHANGED <<cfg, env, stop, quota, repoPage>>

\* An accepted request: after() registers the detached callback and the
\* acknowledgment is returned; no step of the callback has run.
PostAccept(isInternal, userId, taskId, r) ==
  /\ PostCode(isInternal, userId, taskId) = 200
  /\ budget > 0
  /\ pipe[r].pc = "idle"
  /\ \A q \in Runs : q < r => pipe[q].pc # "idle"
  /\ budget' = budget - 1
  /\ pipe' = [pipe EXCEPT ![r].pc = IF cfg.aiKey THEN "genBranch" ELSE "start"]
  /\ lastResp' = Resp("POST", 200)
  /\ UNCHANGED <<cfg, task, env, stop, quota, repoPage>>

POST ==
  \E isInternal \in BOOLEAN, userId \in UserIds, taskId \in TaskIds :
    \/ PostReject(isInternal, userId, taskId)
    \/ \E r \in Runs : PostAccept(isInternal, userId, taskId, r)

----------------------------------------------------------------------------
\* The detached callback registered by after(): name generation, then
\* processTaskWithTimeout.

\* Branch-name generation; any failure falls back to createFallbackBranchName.
GenerateBranch(r) ==
  /\ pipe[r].pc = "genBranch"
  /\ task' = [task EXCEPT !.branchName = IF cfg.branchGenOk THEN "ai" ELSE "fallback"]
  /\ pipe' = [pipe EXCEPT ![r].pc = "genTitle"]
  /\ UNCHANGED <<cfg, budget, env, stop, lastResp, quota, repoPage>>

\* Title generation, awaited before the pipeline is started.
GenerateTitle(r) ==
  /\ pipe[r].pc = "genTitle"
  /\ task' = [task EXCEPT !.title = IF cfg.titleGenOk THEN "ai" ELSE "fallback"]
  /\ pipe' = [pipe EXCEPT ![r].pc = "start"]
  /\ UNCHANGED <<cfg, budget, env, stop, lastResp, quota, repoPage>>

\* processTask returns: its promise settles the race unless the deadline
\* already did, and processTaskWithTimeout clears the warning timer.
Ret(p) ==
  [p EXCEPT !.pc = "returned", !.wpc = IF @ = "racing" THEN "done" ELSE @,
            !.warn = IF p.wpc = "racing" /\ @ = "armed" THEN "cleared" ELSE @,
            !.wrote = 0, !.stopInFlight = FALSE, !.cb = 0, !.checked = FALSE,
            !.commitMessage = "none", !.mcpServers = <<>>,
            !.sanitizedPrompt = <<>>, !.finalBranchName = "none"]

\* processTask returns because it observed stopped.
RetStopped(p) == [Ret(p) EXCEPT !.sawStop = TRUE]

\* A throw inside the try block of processTask: control is in its catch
\* block, with the message the catch block will store.
Throw(p, message) ==
  [p EXCEPT !.pc = "catch", !.err = message, !.cb = 0, !.wrote = 0,
            !.checked = FALSE, !.commitMessage = "none", !.mcpServers = <<>>,
            !.sanitizedPrompt = <<>>, !.finalBranchName = "none"]

\* error.message of a thrown value, or the default for a value without one.
thrownMessage(text) == IF text = "none" THEN UnexpectedMsg ELSE text

\* processTaskWithTimeout arms the timers and calls processTask, which runs
\* up to its first await: the write of status processing.
StartProcessing(r) ==
  /\ pipe[r].pc = "start"
  /\ task' = updateStatus(task, "processing", "Task created, preparing to start...")
  /\ pipe' = [pipe EXCEPT ![r].pc = "prog10", ![r].wpc = "racing",
                          ![r].deadline = "armed", ![r].warn = "armed"]
  /\ UNCHANGED <<cfg, budget, env, stop, lastResp, quota, repoPage>>

\* A progress checkpoint of processTask.
Checkpoint(r, at, progress, next) ==
  /\ pipe[r].pc = at
  /\ task' = updateProgress(task, progress)
  /\ pipe' = [pipe EXCEPT ![r].pc = next, ![r].wrote = progress,
                          ![r].checked = FALSE]
  /\ UNCHANGED <<cfg, budget, env, stop, lastResp, quota, repoPage>>

Progress10(r) == Checkpoint(r, "prog10", 10, "check1")

\* A cancellation check that returns without cleanup when it observes stopped.
StopCheckRead(r, at, next, readOk) ==
  /\ pipe[r].pc = at
  /\ pipe' = [pipe EXCEPT ![r] = IF stopObserved(readOk) THEN RetStopped(@)
                                 ELSE IF next = "catch" THEN Throw(@, @.err)
                                 ELSE [@ EXCEPT !.pc = next, !.checked = TRUE]]
  /\ UNCHANGED <<cfg, budget, task, env, stop, lastResp, quota, repoPage>>

\* The check with a read that succeeds or throws.
StopCheck(r, at, next) == \E readOk \in BOOLEAN : StopCheckRead(r, at, next, readOk)

CheckBeforeExecution(r) == StopCheck(r, "check1", "waitBranch")

\* waitForBranchName: one iteration of the loop reads the row. A name ends
\* the wait; without one the loop sleeps 500 ms and polls again, until the
\* 10 s window has passed (at the latest after MaxPolls iterations), and
\* then returns null.
waitForBranchName(r) ==
  /\ pipe[r].pc = "waitBranch"
  /\ IF task.branchName # "none"
       THEN pipe' = [pipe EXCEPT ![r].pc = "check2", ![r].polls = 0,
                                 ![r].aiBranchName = task.branchName]
       ELSE \E windowOver \in BOOLEAN :
              pipe' = [pipe EXCEPT ![r] =
                         IF windowOver \/ @.polls + 1 >= MaxPolls
                           THEN [@ EXCEPT !.pc = "check2", !.polls = 0,
                                          !.aiBranchName = "none"]
                           ELSE [@ EXCEPT !.polls = @ + 1]]
  /\ UNCHANGED <<cfg, budget, task, env, stop, lastResp, quota, repoPage>>

CheckAfterBranchWait(r) == StopCheck(r, "check2", "prog15")

\* Progress15 followed by port detection also for a task without repository.
Progress15Detect(r) == Checkpoint(r, "prog15", 15, "detectPort")

Progress15(r) ==
  Checkpoint(r, "prog15", 15, IF cfg.repoUrl THEN "detectPort" ELSE "create")

\* detectPortFromRepo, called only for a task with a repository: it yields
\* a port, or throws.
DetectPort(r) ==
  /\ pipe[r].pc = "detectPort"
  /\ \E text \in ErrorTexts \cup {"port"} :
       pipe' = [pipe EXCEPT ![r] = IF text = "port" THEN [@ EXCEPT !.pc = "create"]
                                   ELSE Throw(@, thrownMessage(text))]
  /\ UNCHANGED <<cfg, budget, task, env, stop, lastResp, quota, repoPage>>

\* createSandbox in flight: the adapter reports progress through onProgress.
CreateProgress(r) ==
  /\ pipe[r].pc = "create"
  /\ pipe[r].cb < Len(SandboxProgress)
  /\ task' = updateProgress(task, SandboxProgress[pipe[r].cb + 1])
  /\ pipe' = [pipe EXCEPT ![r].cb = @ + 1,
                          ![r].wrote = SandboxProgress[pipe[r].cb + 1]]
  /\ UNCHANGED <<cfg, budget, env, stop, lastResp, quota, repoPage>>

\* createSandbox polls onCancellationCheck and gives up with cancelled: true.
CreateCancelled(r) ==
  /\ pipe[r].pc = "create"
  /\ isTaskStopped
  /\ pipe' = [pipe EXCEPT ![r] = RetStopped(@)]
  /\ UNCHANGED <<cfg, budget, task, env, stop, lastResp, quota, repoPage>>

\* sandboxBranchName of an adapter that ignores the predetermined name.
sandboxBranchNameOwn(r) == OwnBranchNames[r]

\* sandboxResult.branchName: the predetermined name, or a name of the
\* environment's own.
sandboxBranchName(r) ==
  IF pipe[r].aiBranchName # "none" THEN pipe[r].aiBranchName ELSE OwnBranchNames[r]

\* createSandbox succeeds after its last progress report: the environment
\* exists, on the predetermined branch or on a name of its own; the result
\* type also admits success without a sandbox handle.
CreateSucceed(r) ==
  /\ pipe[r].pc = "create"
  /\ pipe[r].cb = Len(SandboxProgress)
  /\ \E handle \in BOOLEAN : env' = [env EXCEPT ![r] = IF handle THEN "active" ELSE "none"]
  /\ pipe' = [pipe EXCEPT ![r].pc = "check3", ![r].cb = 0,
                          ![r].branchName = sandboxBranchName(r)]
  /\ UNCHANGED <<cfg, budget, task, stop, lastResp, quota, repoPage>>

\* createSandbox reports failure, with an error text or without one, or
\* throws: processTask throws.
CreateFail(r) ==
  /\ pipe[r].pc = "create"
  /\ \E text \in ErrorTexts, thrown \in BOOLEAN :
       pipe' = [pipe EXCEPT ![r] =
                  Throw(@, IF thrown THEN thrownMessage(text)
                           ELSE IF text = "none" THEN CreateFailedMsg ELSE text)]
  /\ UNCHANGED <<cfg, budget, task, env, stop, lastResp, quota, repoPage>>

\* shutdownSandbox inside try/catch: the environment goes down, or the call
\* fails and the failure is ignored.
shutdownSandbox(r, ok) == [env EXCEPT ![r] = IF ok THEN "down" ELSE @]

\* processTask awaits shutdownSandbox and returns, whatever the outcome.
ShutdownSandbox(r) ==
  /\ pipe[r].pc = "shuttingDown"
  /\ \E ok \in BOOLEAN : env' = shutdownSandbox(r, ok)
  /\ pipe' = [pipe EXCEPT ![r] = Ret(@)]
  /\ UNCHANGED <<cfg, budget, task, stop, lastResp, quota, repoPage>>

\* The check after creation shuts the new environment down when stopped.
CheckAfterCreateRead(r, readOk) ==
  /\ pipe[r].pc = "check3"
  /\ pipe' = [pipe EXCEPT ![r] =
                IF ~stopObserved(readOk) THEN [@ EXCEPT !.pc = "update", !.checked = TRUE]
                ELSE IF env[r] # "none"
                       THEN [@ EXCEPT !.pc = "shuttingDown", !.sawStop = TRUE]
                ELSE RetStopped(@)]
  /\ UNCHANGED <<cfg, budget, task, env, stop, lastResp, quota, repoPage>>

CheckAfterCreate(r) == \E readOk \in BOOLEAN : CheckAfterCreateRead(r, readOk)

\* The sandbox id is persisted, and the branch name when none was predetermined.
UpdateSandbox(r) ==
  /\ pipe[r].pc = "update"
  /\ task' = [task EXCEPT !.sandboxId = IF env[r] # "none" THEN r ELSE @,
                          !.branchName = IF pipe[r].aiBranchName = "none"
                                         THEN pipe[r].branchName ELSE @]
  /\ pipe' = [pipe EXCEPT ![r].pc = "check4", ![r].sandbox = env[r] # "none"]
  /\ UNCHANGED <<cfg, budget, env, stop, lastResp, quota, repoPage>>

CheckBeforeAgent(r) == StopCheck(r, "check4", "prog50")

\* Progress50 with a checkpoint value below the adapter's.
Progress50Low(r) == Checkpoint(r, "prog50", 30, "connectors")

Progress50(r) == Checkpoint(r, "prog50", 50, "connectors")

\* Without a sandbox handle processTask throws before the agent is invoked.
NoSandbox(r) ==
  /\ pipe[r].pc = "connectors"
  /\ ~pipe[r].sandbox
  /\ pipe' = [pipe EXCEPT ![r] = Throw(@, NoSandboxMsg)]
  /\ UNCHANGED <<cfg, budget, task, env, stop, lastResp, quota, repoPage>>

\* The connected connectors of the owner as the store holds them: the
\* secrets encrypted.
Secret == "secret"
encrypt(text) == <<"encrypted", text>>
decrypt(cipher) == cipher[2]
UserConnectors ==
  IF cfg.connectors
    THEN <<[id |-> "connector-1", env |-> encrypt(Secret)],
           [id |-> "connector-2", env |-> encrypt(Secret)]>>
    ELSE <<>>

\* mcpServers: the connectors with env decrypted.
decryptConnectors(connectors) ==
  [i \in DOMAIN connectors |-> [connectors[i] EXCEPT !.env = decrypt(@)]]

\* The prompt with each backtick replaced by an apostrophe, every '$' and
\* every backslash removed, and a space put before a '-' at the start of a
\* line.
LineStart(text, i) == i = 1 \/ text[i - 1] = Newline

\* padDashes for a '-' at the start of the prompt only.
padFirstDash(text, i) ==
  IF Len(text) > 0 /\ text[1] = Dash THEN <<Space>> \o text ELSE text

RECURSIVE padDashes(_, _)
padDashes(text, i) ==
  IF i > Len(text) THEN <<>>
  ELSE (IF text[i] = Dash /\ LineStart(text, i) THEN <<Space, Dash>> ELSE <<text[i]>>)
         \o padDashes(text, i + 1)

replaceBackticks(text) ==
  [i \in DOMAIN text |-> IF text[i] = Backtick THEN Apostrophe ELSE text[i]]

removeChar(text, char) == SelectSeq(text, LAMBDA c : c # char)

sanitizePrompt(prompt) ==
  padDashes(removeChar(removeChar(replaceBackticks(prompt), Dollar), Backslash), 1)

\* InvokeAgent storing the decrypted secrets of the connectors on the task.
InvokeAgentStoringEnv(r) ==
  /\ pipe[r].pc = "connectors"
  /\ pipe[r].sandbox
  /\ task' = [task EXCEPT !.mcpServerIds =
                 [i \in DOMAIN UserConnectors |-> decryptConnectors(UserConnectors)[i].env]]
  /\ pipe' = [pipe EXCEPT ![r].pc = "agent",
                          ![r].mcpServers = decryptConnectors(UserConnectors),
                          ![r].sanitizedPrompt = sanitizePrompt(task.prompt)]
  /\ UNCHANGED <<cfg, budget, env, stop, lastResp, quota, repoPage>>

\* The connected connectors of the owner are read and decrypted and, when
\* there are any, their ids are stored on the task; the prompt is sanitized
\* and executeAgentInSandbox is called with both.
InvokeAgent(r) ==
  /\ pipe[r].pc = "connectors"
  /\ pipe[r].sandbox
  /\ task' = [task EXCEPT !.mcpServerIds =
                 IF Len(UserConnectors) > 0
                   THEN [i \in DOMAIN UserConnectors |-> UserConnectors[i].id]
                   ELSE @]
  /\ pipe' = [pipe EXCEPT ![r].pc = "agent",
                          ![r].mcpServers = decryptConnectors(UserConnectors),
                          ![r].sanitizedPrompt = sanitizePrompt(task.prompt)]
  /\ UNCHANGED <<cfg, budget, env, stop, lastResp, quota, repoPage>>

\* executeAgentInSandbox returns success or failure (with an error text or
\* without one), or throws.
AgentReturn(r) ==
  /\ pipe[r].pc = "agent"
  /\ pipe[r].sandbox
  /\ \E outcome \in {"success", "failure", "throw"}, text \in ErrorTexts :
       pipe' = [pipe EXCEPT ![r] =
                  CASE outcome = "success" -> [@ EXCEPT !.pc = "prog90"]
                    [] outcome = "failure" ->
                         [@ EXCEPT !.pc = "agentFailed",
                                   !.err = IF text = "none" THEN AgentFailedMsg ELSE text]
                    [] OTHER -> Throw(@, thrownMessage(text))]
  /\ UNCHANGED <<cfg, budget, task, env, stop, lastResp, quota, repoPage>>

\* After a failure result: return if stopped, else throw.
CheckAfterAgentFailure(r) == StopCheck(r, "agentFailed", "catch")

Progress90(r) == Checkpoint(r, "prog90", 90, "readBranch")

\* The branch to push to: the stored name read now, else the name of the
\* environment, else a name made of the task id.
finalBranchName(r) ==
  IF task.branchName # "none" THEN task.branchName
  ELSE IF pipe[r].branchName # "none" THEN pipe[r].branchName
  ELSE "ai-agent-task"

\* ReadBranch publishing whenever the task has a repository.
ReadBranchRepoOnly(r) ==
  /\ pipe[r].pc = "readBranch"
  /\ pipe' = [pipe EXCEPT ![r].pc = IF cfg.repoUrl THEN "commitMessage" ELSE "prog100",
                          ![r].finalBranchName = finalBranchName(r)]
  /\ UNCHANGED <<cfg, budget, task, env, stop, lastResp, quota, repoPage>>

\* The final branch name is read; publication needs a repository and a token.
ReadBranch(r) ==
  /\ pipe[r].pc = "readBranch"
  /\ pipe' = [pipe EXCEPT ![r].pc = IF cfg.repoUrl /\ cfg.githubToken
                                    THEN "commitMessage" ELSE "prog100",
                          ![r].finalBranchName = finalBranchName(r)]
  /\ UNCHANGED <<cfg, budget, task, env, stop, lastResp, quota, repoPage>>

\* CommitMessageResult throwing when the generation fails.
CommitMessageResultFatal(r, ok) ==
  /\ pipe[r].pc = "commitMessage"
  /\ pipe' = [pipe EXCEPT ![r] = IF ok THEN [@ EXCEPT !.pc = "push", !.commitMessage = "ai"]
                                   ELSE Throw(@, UnexpectedMsg)]
  /\ UNCHANGED <<cfg, budget, task, env, stop, lastResp, quota, repoPage>>

\* generateCommitMessage returned (ok) or threw: the generated message, or
\* the one of createFallbackCommitMessage, is the message of the push.
CommitMessageResult(r, ok) ==
  /\ pipe[r].pc = "commitMessage"
  /\ pipe' = [pipe EXCEPT ![r].pc = "push",
                          ![r].commitMessage = IF ok THEN "ai" ELSE "fallback"]
  /\ UNCHANGED <<cfg, budget, task, env, stop, lastResp, quota, repoPage>>

\* generateCommitMessage, with createFallbackCommitMessage on any failure.
GenerateCommitMessage(r) == \E ok \in BOOLEAN : CommitMessageResult(r, ok)

\* PushResult treating a commit that could not be pushed as a failure of
\* the run.
PushResultFatal(r, outcome, text) ==
  /\ pipe[r].pc = "push"
  /\ pipe' = [pipe EXCEPT ![r] =
                CASE outcome \in {"throw", "pushFailed"} -> Throw(@, thrownMessage(text))
                  [] outcome = "pushed" -> [@ EXCEPT !.pc = "logPushed"]
                  [] OTHER -> [@ EXCEPT !.pc = "prog100"]]
  /\ UNCHANGED <<cfg, budget, task, env, stop, lastResp, quota, repoPage>>

\* pushChangesToBranch returned {success, pushFailed} or threw, and the
\* branch processTask takes on it.
PushResult(r, outcome, text) ==
  /\ pipe[r].pc = "push"
  /\ pipe' = [pipe EXCEPT ![r] =
                CASE outcome = "throw" -> Throw(@, thrownMessage(text))
                  [] outcome = "pushed" -> [@ EXCEPT !.pc = "logPushed"]
                  [] outcome = "pushFailed" -> [@ EXCEPT !.pc = "logNotPushed"]
                  [] OTHER -> [@ EXCEPT !.pc = "prog100"]]
  /\ UNCHANGED <<cfg, budget, task, env, stop, lastResp, quota, repoPage>>

\* pushChangesToBranch: pushed, committed but not pushed, neither, or a throw.
Push(r) ==
  \E outcome \in {"pushed", "pushFailed", "failed", "throw"}, text \in ErrorTexts :
    PushResult(r, outcome, text)

\* The log entry after the push: 'Changes pushed to branch', or 'Changes
\* committed locally but could not be pushed to remote'.
PushLog(r) ==
  /\ pipe[r].pc \in {"logPushed", "logNotPushed"}
  /\ pipe' = [pipe EXCEPT ![r].pc = "prog100"]
  /\ UNCHANGED <<cfg, budget, task, env, stop, lastResp, quota, repoPage>>

Progress100(r) == Checkpoint(r, "prog100", 100, "completed")

\* The completion write.
Complete(r) ==
  /\ pipe[r].pc = "completed"
  /\ task' = updateStatus(task, "completed", "Task completed successfully")
  /\ pipe' = [pipe EXCEPT ![r].pc = "shutdown", ![r].wrote = 0, ![r].tw = @ + 1]
  /\ UNCHANGED <<cfg, budget, env, stop, lastResp, quota, repoPage>>

\* Shutdown that also tears down a keep-alive environment.
ShutdownAlways(r) ==
  /\ pipe[r].pc = "shutdown"
  /\ pipe' = [pipe EXCEPT ![r] = IF @.sandbox THEN [@ EXCEPT !.pc = "shuttingDown"]
                                   ELSE Ret(@)]
  /\ UNCHANGED <<cfg, budget, task, env, stop, lastResp, quota, repoPage>>

\* After completion: shutdownSandbox is called unless keepAlive is set.
Shutdown(r) ==
  /\ pipe[r].pc = "shutdown"
  /\ pipe' = [pipe EXCEPT ![r] = IF ~cfg.keepAlive /\ @.sandbox
                                   THEN [@ EXCEPT !.pc = "shuttingDown"]
                                   ELSE Ret(@)]
  /\ UNCHANGED <<cfg, budget, task, env, stop, lastResp, quota, repoPage>>

\* CatchWrite storing the default message whatever was thrown.
CatchWriteDefault(r) ==
  /\ pipe[r].pc = "catch"
  /\ task' = updateStatus(task, "error", UnexpectedMsg)
  /\ pipe' = [pipe EXCEPT ![r].pc = "catchShutdown", ![r].err = "none", ![r].tw = @ + 1]
  /\ UNCHANGED <<cfg, budget, env, stop, lastResp, quota, repoPage>>

\* The catch block of processTask: the error write, with the message of the
\* thrown error.
CatchWrite(r) ==
  /\ pipe[r].pc = "catch"
  /\ task' = updateStatus(task, "error", pipe[r].err)
  /\ pipe' = [pipe EXCEPT ![r].pc = "catchShutdown", ![r].err = "none", ![r].tw = @ + 1]
  /\ UNCHANGED <<cfg, budget, env, stop, lastResp, quota, repoPage>>

\* The catch block of processTask: shutdownSandbox is called when the run
\* holds a sandbox.
CatchShutdown(r) ==
  /\ pipe[r].pc = "catchShutdown"
  /\ pipe' = [pipe EXCEPT ![r] = IF @.sandbox THEN [@ EXCEPT !.pc = "shuttingDown"]
                                   ELSE Ret(@)]
  /\ UNCHANGED <<cfg, budget, task, env, stop, lastResp, quota, repoPage>>

\* The deadline timer fires while the race is undecided: the race rejects
\* and the catch block of processTaskWithTimeout clears the warning timer.
TimerFire(r) ==
  /\ pipe[r].wpc = "racing"
  /\ pipe' = [pipe EXCEPT ![r].wpc = "timeout", ![r].deadline = "fired",
                          ![r].warn = IF @ = "armed" THEN "cleared" ELSE @]
  /\ UNCHANGED <<cfg, budget, task, env, stop, lastResp, quota, repoPage>>

\* TimeoutWrite storing the message of a generic error.
TimeoutWriteGeneric(r) ==
  /\ pipe[r].wpc = "timeout"
  /\ task' = updateStatus(task, "error", UnexpectedMsg)
  /\ pipe' = [pipe EXCEPT ![r].wpc = "timedOut", ![r].tw = @ + 1]
  /\ UNCHANGED <<cfg, budget, env, stop, lastResp, quota, repoPage>>

\* The catch block of processTaskWithTimeout: the timeout error write, after
\* which processTaskWithTimeout returns.
TimeoutWrite(r) ==
  /\ pipe[r].wpc = "timeout"
  /\ task' = updateStatus(task, "error", TimeoutMsg)
  /\ pipe' = [pipe EXCEPT ![r].wpc = "timedOut", ![r].tw = @ + 1]
  /\ UNCHANGED <<cfg, budget, env, stop, lastResp, quota, repoPage>>

\* The advisory timer fires one minute before the deadline and logs.
WarningFire(r) ==
  /\ pipe[r].warn = "armed"
  /\ pipe' = [pipe EXCEPT ![r].warn = "fired"]
  /\ UNCHANGED <<cfg, budget, task, env, stop, lastResp, quota, repoPage>>

\* The deadline timer, which is never cleared, fires after the race was
\* settled by processTask: its reject has no effect.
LateTimerFire(r) ==
  /\ pipe[r].wpc = "done"
  /\ pipe[r].deadline = "armed"
  /\ pipe' = [pipe EXCEPT ![r].deadline = "fired"]
  /\ UNCHANGED <<cfg, budget, task, env, stop, lastResp, quota, repoPage>>

----------------------------------------------------------------------------
\* Stop endpoint: PATCH /api/tasks/[taskId] with action = stop.

\* getUserTask without the filter on deletedAt.
getUserTaskDeleted(taskId, userId) ==
  taskId = TaskId /\ userId = Owner

\* getUserTask without the filter on the owner.
getUserTaskAnyOwner(taskId, userId) ==
  taskId = TaskId /\ ~task.deletedAt

\* getUserTask: the row by id and owner, soft-deleted rows excluded.
getUserTask(taskId, userId) ==
  taskId = TaskId /\ userId = Owner /\ ~task.deletedAt

\* PatchCode without the processing-only precondition.
PatchCodeAnyStatus(userId, taskId, action) ==
  IF userId = NoUser THEN 401
  ELSE IF ~getUserTask(taskId, userId) THEN 404
  ELSE IF action # "stop" THEN 400
  ELSE 200

\* The status code PATCH answers with before stopTaskExecution is called
\* (200 stands for: the preconditions hold and the stop is executed).
PatchCode(userId, taskId, action) ==
  IF userId = NoUser THEN 401
  ELSE IF ~getUserTask(taskId, userId) THEN 404
  ELSE IF action # "stop" THEN 400
  ELSE IF task.status # "processing" THEN 400
  ELSE 200

\* A rejected request: the response is the only effect.
PatchReject(userId, taskId, action) ==
  /\ PatchCode(userId, taskId, action) # 200
  /\ lastResp' = Resp("PATCH", PatchCode(userId, taskId, action))
  /\ UNCHANGED <<cfg, budget, task, pipe, env, stop, quota, repoPage>>

\* The preconditions hold: PATCH calls stopTaskExecution.
PatchAccept(userId, taskId, action, s) ==
  /\ PatchCode(userId, taskId, action) = 200
  /\ stop[s] = "idle"
  /\ \A q \in Stops : q < s => stop[q] # "idle"
  /\ stop' = [stop EXCEPT ![s] = "checked"]
  /\ UNCHANGED <<cfg, budget, task, pipe, env, lastResp, quota, repoPage>>

PATCH ==
  \E userId \in UserIds, taskId \in TaskIds, action \in {"stop", "other"} :
    \/ PatchReject(userId, taskId, action)
    \/ \E s \in Stops : PatchAccept(userId, taskId, action, s)

\* GET /api/tasks/[taskId]: the row of the authenticated user, or 404.
GetCode(userId, taskId) ==
  IF userId = NoUser THEN 401
  ELSE IF ~getUserTask(taskId, userId) THEN 404
  ELSE 200

GetTask(userId, taskId) ==
  /\ lastResp' = [op |-> "GET", code |-> GetCode(userId, taskId),
                  log |-> IF GetCode(userId, taskId) = 200 THEN "task" ELSE "none"]
  /\ UNCHANGED <<cfg, budget, task, pipe, env, stop, quota, repoPage>>

GET == \E userId \in UserIds, taskId \in TaskIds : GetTask(userId, taskId)

\* DELETE /api/tasks/[taskId]: a soft delete, deletedAt is set on the row.
DeleteTask(userId, taskId) ==
  /\ lastResp' = Resp("DELETE", GetCode(userId, taskId))
  /\ task' = IF GetCode(userId, taskId) = 200 THEN [task EXCEPT !.deletedAt = TRUE]
              ELSE task
  /\ UNCHANGED <<cfg, budget, pipe, env, stop, quota, repoPage>>

DELETE == \E userId \in UserIds, taskId \in TaskIds : DeleteTask(userId, taskId)

\* GET /api/tasks/[taskId]/messages: the handler's own lookup of the row by
\* id and owner, soft-deleted rows excluded, then the list of messages.
MessagesCode(userId, taskId) ==
  IF userId = NoUser THEN 401
  ELSE IF ~(taskId = TaskId /\ userId = Owner /\ ~task.deletedAt) THEN 404
  ELSE 200

GetMessages(userId, taskId) ==
  /\ lastResp' = [op |-> "MESSAGES", code |-> MessagesCode(userId, taskId),
                  log |-> IF MessagesCode(userId, taskId) = 200 THEN "messages" ELSE "none"]
  /\ UNCHANGED <<cfg, budget, task, pipe, env, stop, quota, repoPage>>

MESSAGES == \E userId \in UserIds, taskId \in TaskIds : GetMessages(userId, taskId)

\* stopTaskExecution: the unconditional write of stopped, with the error
\* annotation and the completion timestamp.
stopTaskExecution(s) ==
  /\ stop[s] = "checked"
  /\ task' = [task EXCEPT !.status = "stopped", !.error = StoppedMsg,
                          !.completedAt = TRUE]
  /\ stop' = [stop EXCEPT ![s] = "written"]
  /\ pipe' = [r \in Runs |->
                [pipe[r] EXCEPT !.stopInFlight =
                                  @ \/ (pipe[r].pc = "agent" /\ pipe[r].sandbox)]]
  /\ UNCHANGED <<cfg, budget, env, lastResp, quota, repoPage>>

\* A teardown through the sandbox registry: on success the task's active
\* environments are down; a failure or a throw changes nothing.
Teardown(outcome) ==
  [r \in Runs |-> IF outcome = "success" /\ env[r] = "active" THEN "down" ELSE env[r]]

TeardownOutcomes ==
  {"fail", "throw"} \cup (IF \E r \in Runs : env[r] = "active" THEN {"success"} ELSE {})

\* The response of PATCH after stopTaskExecution returned success, with the
\* last entry terminateSandbox logged.
Stopped(log) == [op |-> "PATCH", code |-> 200, log |-> log]

\* terminateSandbox, first attempt: stopSandboxFromDB. Success or a throw
\* ends terminateSandbox; only a failure result leads to the second attempt.
StopFromDB(s) ==
  /\ stop[s] = "written"
  /\ \E outcome \in TeardownOutcomes :
       /\ env' = Teardown(outcome)
       /\ stop' = [stop EXCEPT ![s] = IF outcome = "fail" THEN "kill" ELSE "idle"]
       /\ lastResp' = CASE outcome = "success" -> Stopped("terminated by registry")
                        [] outcome = "throw" -> Stopped("registry threw")
                        [] OTHER -> lastResp
  /\ UNCHANGED <<cfg, budget, task, pipe, quota, repoPage>>

\* KillSandbox turning a failed kill into an error response.
KillSandboxStrict(s) ==
  /\ stop[s] = "kill"
  /\ \E outcome \in TeardownOutcomes :
       /\ env' = Teardown(outcome)
       /\ lastResp' = IF outcome = "success" THEN Stopped("terminated by kill")
                      ELSE [op |-> "PATCH", code |-> 500, log |-> "not terminated"]
  /\ stop' = [stop EXCEPT ![s] = "idle"]
  /\ UNCHANGED <<cfg, budget, task, pipe, quota, repoPage>>

\* terminateSandbox, second attempt: killSandbox; whatever its result,
\* stopTaskExecution returns success.
KillSandbox(s) ==
  /\ stop[s] = "kill"
  /\ \E outcome \in TeardownOutcomes :
       /\ env' = Teardown(outcome)
       /\ lastResp' = IF outcome = "success" THEN Stopped("terminated by kill")
                      ELSE Stopped("not terminated")
  /\ stop' = [stop EXCEPT ![s] = "idle"]
  /\ UNCHANGED <<cfg, budget, task, pipe, quota, repoPage>>

----------------------------------------------------------------------------
\* The steps of one detached pipeline.
\* The steps of the detached work of one accepted request that do not rest
\* on a stop request.
Unstopped(r) ==
  \/ GenerateBranch(r)
  \/ GenerateTitle(r)
  \/ StartProcessing(r)
  \/ Progress10(r)
  \/ CheckBeforeExecution(r)
  \/ waitForBranchName(r)
  \/ CheckAfterBranchWait(r)
  \/ Progress15(r)
  \/ DetectPort(r)
  \/ CreateProgress(r)
  \/ CreateSucceed(r)
  \/ CreateFail(r)
  \/ CheckAfterCreate(r)
  \/ ShutdownSandbox(r)
  \/ UpdateSandbox(r)
  \/ CheckBeforeAgent(r)
  \/ Progress50(r)
  \/ NoSandbox(r)
  \/ InvokeAgent(r)
  \/ AgentReturn(r)
  \/ CheckAfterAgentFailure(r)
  \/ Progress90(r)
  \/ ReadBranch(r)
  \/ GenerateCommitMessage(r)
  \/ Push(r)
  \/ PushLog(r)
  \/ Progress100(r)
  \/ Complete(r)
  \/ Shutdown(r)
  \/ CatchWrite(r)
  \/ CatchShutdown(r)

\* Every step of the detached work of one accepted request.
Orchestrator(r) ==
  \/ Unstopped(r)
  \/ CreateCancelled(r)

\* The deadline of one pipeline expires.
Deadline(r) ==
  \/ TimerFire(r)
  \/ TimeoutWrite(r)

\* The timers of one pipeline beside the race.
Timers(r) ==
  \/ WarningFire(r)
  \/ LateTimerFire(r)

\* The steps of one accepted stop request.
StopHandler(s) ==
  \/ stopTaskExecution(s)
  \/ StopFromDB(s)
  \/ KillSandbox(s)

\* Requests that pass their preconditions.
Accepted ==
  \/ \E isInternal \in BOOLEAN, userId \in UserIds, taskId \in TaskIds, r \in Runs :
       PostAccept(isInternal, userId, taskId, r)
  \/ \E userId \in UserIds, taskId \in TaskIds, action \in {"stop", "other"}, s \in Stops :
       PatchAccept(userId, taskId, action, s)

\* Every request to the two endpoints, every pipeline, deadline and stop.
Next ==
  \/ POST
  \/ PATCH
  \/ GET
  \/ DELETE
  \/ MESSAGES
  \/ \E r \in Runs : Orchestrator(r)
  \/ \E r \in Runs : Deadline(r)
  \/ \E r \in Runs : Timers(r)
  \/ \E s \in Stops : StopHandler(s)

Spec == Init /\ [][Next]_vars

\* The orchestrator with the requests that are accepted.
NextRun ==
  \/ Accepted
  \/ \E r \in Runs : Orchestrator(r)
  \/ \E r \in Runs : Deadline(r)
  \/ \E s \in Stops : StopHandler(s)

\* Concurrent trigger requests on a new row, while no deadline expires.
NextRace ==
  \/ Accepted
  \/ \E r \in Runs : Orchestrator(r)
  \/ \E s \in Stops : StopHandler(s)

SpecRace == InitWith({FullConfig}, MaxRuns, {NewTask}) /\ [][NextRace]_vars

\* One accepted trigger request on a new row, with stop requests and the
\* deadline.
SpecSolo ==
  InitWith({FullConfig, StandaloneConfig}, SoloRuns, {NewTask}) /\ [][NextRun]_vars

\* One run whose awaited steps may never return, while the event loop keeps
\* running timers and the continuations of settled promises.
SpecDeadline ==
  /\ InitWith({FullConfig, StandaloneConfig}, SoloRuns, {NewTask})
  /\ [][NextRun]_vars
  /\ \A r \in Runs : WF_vars(Deadline(r))

\* The steps of the detached work that are store reads, store writes or
\* control flow of its own: every step but the return of an external call
\* (name, title and commit-message generation, port detection, environment
\* creation, agent invocation, push, environment shutdown).
Continuation(r) ==
  \/ StartProcessing(r)
  \/ Progress10(r)
  \/ CheckBeforeExecution(r)
  \/ waitForBranchName(r)
  \/ CheckAfterBranchWait(r)
  \/ Progress15(r)
  \/ CheckAfterCreate(r)
  \/ UpdateSandbox(r)
  \/ CheckBeforeAgent(r)
  \/ Progress50(r)
  \/ NoSandbox(r)
  \/ InvokeAgent(r)
  \/ CheckAfterAgentFailure(r)
  \/ Progress90(r)
  \/ ReadBranch(r)
  \/ PushLog(r)
  \/ Progress100(r)
  \/ Complete(r)
  \/ Shutdown(r)
  \/ CatchWrite(r)
  \/ CatchShutdown(r)

\* One run in which an external call may never return, while timers fire
\* and store reads and writes succeed.
SpecHang ==
  /\ InitWith({FullConfig, StandaloneConfig}, SoloRuns, {NewTask})
  /\ [][NextRun]_vars
  /\ \A r \in Runs : WF_vars(Deadline(r)) /\ WF_vars(Continuation(r))

\* One run with both timers of processTaskWithTimeout.
NextTimers ==
  \/ NextRun
  \/ \E r \in Runs : Timers(r)

SpecTimers == InitWith({FullConfig}, SoloRuns, {NewTask}) /\ [][NextTimers]_vars

\* One run for every combination of repository, token, keep-alive flag and
\* name-generation outcome.
SpecConfigs == InitWith(Configs, SoloRuns, {NewTask}) /\ [][NextRun]_vars

\* The same, with every awaited step of the pipeline returning.
SpecConfigsFair == SpecConfigs /\ \A r \in Runs : WF_vars(Orchestrator(r))

\* The endpoints with every request, on a new row or on a row an earlier
\* process left behind, while no deadline expires.
NextApi ==
  \/ POST
  \/ PATCH
  \/ \E r \in Runs : Orchestrator(r)
  \/ \E s \in Stops : StopHandler(s)

SpecApi == InitWith({FullConfig}, SoloRuns, StoredTasks) /\ [][NextApi]_vars

\* The same with the read, delete and message-list endpoints.
NextTasks ==
  \/ NextApi
  \/ GET
  \/ DELETE
  \/ MESSAGES

SpecTasks == InitWith({FullConfig}, SoloRuns, StoredTasks) /\ [][NextTasks]_vars

\* Trigger requests that are accepted.
Triggered ==
  \E isInternal \in BOOLEAN, userId \in UserIds, taskId \in TaskIds, r \in Runs :
    PostAccept(isInternal, userId, taskId, r)

\* Concurrent pipelines of a new row, with and without name generation,
\* while no stop request arrives and no deadline expires.
NextNames ==
  \/ Triggered
  \/ \E r \in Runs : Unstopped(r)

SpecNames ==
  /\ InitWith({FullConfig, [FullConfig EXCEPT !.aiKey = FALSE]}, MaxRuns, {NewTask})
  /\ [][NextNames]_vars

\* Prompts of up to MaxPromptLen characters, of the characters the
\* sanitization treats and one it does not.
MaxPromptLen == 4
PromptChars == {Backtick, Dollar, Backslash, Dash, Newline, "a"}
Prompts == UNION {[1..n -> PromptChars] : n \in 0..MaxPromptLen}

\* The first run of a task with any prompt, at the point where processTask
\* has written progress 50 and holds its sandbox.
InitBeforeAgent ==
  /\ cfg = FullConfig
  /\ budget = SoloRuns - 1
  /\ \E prompt \in Prompts :
       task = [NewTask EXCEPT !.status = "processing", !.progress = 50,
                              !.branchName = "ai", !.title = "ai",
                              !.sandboxId = 1, !.prompt = prompt]
  /\ pipe = [r \in Runs |->
               IF r = 1
                 THEN [IdlePipe EXCEPT !.pc = "connectors", !.wpc = "racing",
                                       !.deadline = "armed", !.warn = "armed",
                                       !.aiBranchName = "ai", !.branchName = "ai",
                                       !.sandbox = TRUE, !.wrote = 50]
                 ELSE IdlePipe]
  /\ env = [r \in Runs |-> IF r = 1 THEN "active" ELSE "none"]
  /\ stop = [s \in Stops |-> IdleStop]
  /\ lastResp = Resp("POST", 200)
  /\ quota = NoQuota
  /\ repoPage = NoRepoPage

\* The agent invocation of that run, for every prompt.
NextSanitize == \E r \in Runs : InvokeAgent(r)

SpecSanitize == InitBeforeAgent /\ [][NextSanitize]_vars

----------------------------------------------------------------------------
\* Daily limit: checkRateLimit as createTaskHandler calls it.

\* The largest daily limit and the most tasks the owner creates in the day.
MaxLimit == 3
MaxCreated == 4

\* A task row of today: whether its user message was inserted, and whether
\* it is soft-deleted.
CreatedTask == [message |-> FALSE, deleted |-> FALSE]

\* Tasks of the owner created today, soft-deleted ones excluded.
taskCount(q) ==
  Cardinality({i \in DOMAIN q.created : ~q.created[i].deleted})

\* User messages of today on tasks of the owner that are not soft-deleted.
messageCount(q) ==
  Cardinality({i \in DOMAIN q.created :
                 ~q.created[i].deleted /\ q.created[i].message})

checkRateLimit(q) ==
  LET count_total == taskCount(q) + messageCount(q)
  IN [allowed |-> count_total < q.limit,
      remaining |-> IF q.limit - count_total > 0 THEN q.limit - count_total ELSE 0,
      total |-> q.limit]

\* createTaskHandler of an authenticated user: refused when the limit is
\* reached, else the row is inserted.
createTaskHandler ==
  /\ Len(quota.created) < MaxCreated
  /\ quota' = IF checkRateLimit(quota).allowed
                THEN [quota EXCEPT !.created = Append(@, CreatedTask),
                                   !.last = "created"]
                ELSE [quota EXCEPT !.last = "refused"]
  /\ UNCHANGED <<cfg, budget, task, pipe, env, stop, lastResp, repoPage>>

\* processTask of a created task saves the user's message.
SaveUserMessage(i) ==
  /\ i \in DOMAIN quota.created
  /\ ~quota.created[i].message
  /\ quota' = [quota EXCEPT !.created[i].message = TRUE]
  /\ UNCHANGED <<cfg, budget, task, pipe, env, stop, lastResp, repoPage>>

\* DELETE of a created task.
DeleteCreated(i) ==
  /\ i \in DOMAIN quota.created
  /\ ~quota.created[i].deleted
  /\ quota' = [quota EXCEPT !.created[i].deleted = TRUE]
  /\ UNCHANGED <<cfg, budget, task, pipe, env, stop, lastResp, repoPage>>

NextLimit ==
  \/ createTaskHandler
  \/ \E i \in 1..MaxCreated : SaveUserMessage(i)
  \/ \E i \in 1..MaxCreated : DeleteCreated(i)

\* One day of one owner with a daily limit of 1 to MaxLimit and nothing
\* created yet.
InitLimit ==
  /\ InitRun({FullConfig}, SoloRuns, {NewTask})
  /\ quota \in [limit : 1..MaxLimit, created : {<<>>}, last : {"none"}]
  /\ repoPage = NoRepoPage

SpecLimit == InitLimit /\ [][NextLimit]_vars

----------------------------------------------------------------------------
\* User-repos endpoint: GET without a search term.

\* The page size of the upstream requests, and the largest page requested.
GithubPerPage == 100
MaxPage == 5

\* per_page values, dividing the upstream page size and not, and numbers of
\* repositories of the user.
PerPages == {1, 25, 30, 50, 100}
Totals == {0, 95, 100, 250}

\* The user's repositories, most recently updated first, by rank.
AllRepos(total) == [i \in 1..total |-> i]

Min(a, b) == IF a < b THEN a ELSE b

\* The upstream API: page githubPage of the list, githubPerPage to a page.
githubPageOf(all, githubPage, githubPerPage) ==
  SubSeq(all, (githubPage - 1) * githubPerPage + 1,
         Min(githubPage * githubPerPage, Len(all)))

\* Array.prototype.slice(from, to), with positions counted from 0.
slice(array, from, to) == SubSeq(array, from + 1, Min(to, Len(array)))

\* Math.ceil(a / b) of positive integers.
ceilDiv(a, b) == (a + b - 1) \div b

\* slicedRepos: the slice of the one upstream page the handler fetches.
slicedRepos(all, page, perPage) ==
  LET githubPage == ceilDiv(page * perPage, GithubPerPage)
      repos == githubPageOf(all, githubPage, GithubPerPage)
      offsetInGithubPage == ((page - 1) * perPage) % GithubPerPage
  IN slice(repos, offsetInGithubPage, offsetInGithubPage + perPage)

\* GET of the user-repos endpoint without a search term: 401 without a
\* token or when the user request fails, 500 when the repository request
\* fails, else the page.
GetUserRepos ==
  /\ repoPage.code = 0
  /\ \E outcome \in {"noToken", "userFailed", "reposFailed", "ok"} :
       repoPage' =
         CASE outcome \in {"noToken", "userFailed"} -> [repoPage EXCEPT !.code = 401]
           [] outcome = "reposFailed" -> [repoPage EXCEPT !.code = 500]
           [] OTHER ->
                [repoPage EXCEPT !.code = 200,
                                 !.repos = slicedRepos(AllRepos(repoPage.total),
                                                       repoPage.page, repoPage.perPage)]
  /\ UNCHANGED <<cfg, budget, task, pipe, env, stop, lastResp, quota>>

\* One request for each page, page size and number of repositories.
InitRepos ==
  /\ InitRun({FullConfig}, SoloRuns, {NewTask})
  /\ quota = NoQuota
  /\ repoPage \in [total : Totals, page : 1..MaxPage, perPage : PerPages,
                    code : {0}, repos : {<<>>}]

NextRepos == GetUserRepos

SpecRepos == InitRepos /\ [][NextRepos]_vars

----------------------------------------------------------------------------
\* Properties.

\* A step of POST with these inputs, and of PATCH with these inputs.
PostStep(isInternal, userId, taskId) ==
  \/ PostReject(isInternal, userId, taskId)
  \/ \E r \in Runs : PostAccept(isInternal, userId, taskId, r)

PatchStep(userId, taskId, action) ==
  \/ PatchReject(userId, taskId, action)
  \/ \E s \in Stops : PatchAccept(userId, taskId, action, s)

\* The request passes authentication, existence and ownership at POST.
PostAuthorised(isInternal, userId) ==
  (isInternal \/ userId # NoUser) /\ (userId = NoUser \/ userId = Owner)

\* C1: the persisted status only changes along
\* pending -> processing -> {completed, error, stopped}: a terminal status is
\* never changed, and processing is only entered from pending.
C1_StatusTransitions ==
  [][/\ task.status \in Terminal => task'.status = task.status
     /\ task.status = "processing" => task'.status \in {"processing"} \cup Terminal
     /\ task.status = "pending" => task'.status \in {"pending", "processing"}]_vars

\* C2: once stopped is written, no later write changes the status.
C2_StoppedIsSticky ==
  [][task.status = "stopped" => task'.status = "stopped"]_vars

\* C3: when stopped was persisted while the agent invocation of a run was in
\* flight, no later step of that run's processTask (after a failure result or
\* a throw) overwrites stopped with error.
C3_StopDuringAgentNotError ==
  [][\A r \in Runs :
       (pipe[r].stopInFlight /\ pipe'[r].pc # pipe[r].pc /\ task.status = "stopped")
         => task'.status # "error"]_vars

\* A pipeline is running from the step that schedules it until processTask
\* returns.
Running(r) == pipe[r].pc \notin {"idle", "returned"}

\* C4: at most one pipeline of the task is scheduled or running at any time.
C4_OnePipelineAtATime ==
  Cardinality({r \in Runs : Running(r)}) <= 1

\* C5: the trigger endpoint schedules a pipeline only when the status it reads
\* is pending; an otherwise valid request on a processing, completed, error
\* or stopped task gets 400, schedules nothing and leaves the row unchanged.
C5_TriggerOnlyPending ==
  [][/\ \A r \in Runs :
          (pipe[r].pc = "idle" /\ pipe'[r].pc # "idle") => task.status = "pending"
     /\ \A isInternal \in BOOLEAN, userId \in UserIds :
          (/\ PostStep(isInternal, userId, TaskId)
           /\ PostAuthorised(isInternal, userId)
           /\ task.status # "pending")
            => /\ lastResp' = Resp("POST", 400)
               /\ pipe' = pipe
               /\ task' = task]_vars

C5_Witness ==
  /\ lastResp = Resp("POST", 400)
  /\ task.status = "completed"
  /\ \E r \in Runs : pipe[r].pc = "returned"

\* C6: POST answers 401 without internal secret and userId, else 404 for an
\* unknown task id, else 401 for a userId that is not the owner's, else 200
\* for a pending task; every answer other than 200 schedules no pipeline and
\* writes nothing to the store.
C6_Expected(isInternal, userId, taskId) ==
  IF ~isInternal /\ userId = NoUser THEN {401}
  ELSE IF taskId = MissingId THEN {404}
  ELSE IF userId \in {Other} THEN {401}
  ELSE IF task.status = "pending" THEN {200}
  ELSE {400}

C6_TriggerResponses ==
  [][\A isInternal \in BOOLEAN, userId \in UserIds, taskId \in TaskIds :
       PostStep(isInternal, userId, taskId)
         => /\ lastResp'.op = "POST"
            /\ lastResp'.code \in C6_Expected(isInternal, userId, taskId)
            /\ lastResp'.code # 200 => (task' = task /\ pipe' = pipe /\ env' = env)
            /\ lastResp'.code = 200 => \E r \in Runs : pipe'[r] # pipe[r]]_vars

C6_Witness ==
  /\ lastResp = Resp("POST", 401)
  /\ task.status = "pending"
  /\ \A r \in Runs : pipe[r].pc = "idle"

\* C7: the acknowledgment is returned in the step that schedules the
\* pipeline: no step of the detached work has run, the store is untouched,
\* and the response stands while the pipeline has not finished.
C7_AckBeforePipeline ==
  [][\A r \in Runs :
       (pipe[r].pc = "idle" /\ pipe'[r].pc # "idle")
         => /\ lastResp' = Resp("POST", 200)
            /\ pipe'[r].pc \in {"genBranch", "start"}
            /\ pipe'[r].wpc = "none"
            /\ task' = task
            /\ env' = env]_vars

C7_Witness ==
  /\ lastResp = Resp("POST", 200)
  /\ task.status = "pending"
  /\ \E r \in Runs : pipe[r].pc = "genBranch"

\* C8: a stop request is executed only when the status PATCH reads is
\* processing; the owner's stop request on a pending, completed, error or
\* stopped task gets 400 and changes neither the row nor any environment.
C8_StopOnlyProcessing ==
  [][/\ \A s \in Stops :
          (stop[s] = "idle" /\ stop'[s] # "idle") => task.status = "processing"
     /\ (PatchStep(Owner, TaskId, "stop") /\ task.status # "processing")
          => /\ lastResp' = Resp("PATCH", 400)
             /\ task' = task
             /\ env' = env
             /\ stop' = stop]_vars

C8_Witness ==
  /\ lastResp = Resp("PATCH", 400)
  /\ task.status = "stopped"
  /\ \A s \in Stops : stop[s] = "idle"

\* C9: an accepted stop request first writes stopped with the error
\* annotation and the completion timestamp, touching no environment; only
\* then it tries the registry stop, and the kill only after a registry stop
\* that did not succeed; no teardown step changes the row, and the request
\* is answered 200 also when both attempts fail.
C9_StopThenTeardown ==
  [][\A s \in Stops :
       /\ (stop[s] = "idle" /\ stop'[s] # "idle")
            => (stop'[s] = "checked" /\ task' = task /\ env' = env)
       /\ (stop[s] = "checked" /\ stop'[s] # "checked")
            => /\ stop'[s] = "written"
               /\ task'.status = "stopped"
               /\ task'.error = StoppedMsg
               /\ task'.completedAt
               /\ env' = env
       /\ (stop[s] = "written" /\ stop'[s] # "written")
            => /\ task' = task
               /\ stop'[s] = "kill" => (env' = env /\ lastResp' = lastResp)
               /\ stop'[s] # "kill" => (stop'[s] = "idle" /\ lastResp'.op = "PATCH"
                                        /\ lastResp'.code = 200)
       /\ (stop[s] = "kill" /\ stop'[s] # "kill")
            => /\ task' = task
               /\ stop'[s] = "idle"
               /\ lastResp'.op = "PATCH"
               /\ lastResp'.code = 200]_vars

C9_Witness ==
  /\ lastResp = Stopped("not terminated")
  /\ task.status = "stopped"
  /\ task.completedAt
  /\ \E r \in Runs : env[r] = "active"

\* C10: the progress values one run persists are non-decreasing, and each is
\* the value the row holds after the write.
C10_ProgressNonDecreasing ==
  [][\A r \in Runs :
       (pipe'[r].wrote # pipe[r].wrote /\ pipe'[r].wrote # 0)
         => /\ pipe'[r].wrote >= pipe[r].wrote
            /\ task'.progress = pipe'[r].wrote]_vars

C10_Witness ==
  /\ task.progress = 100
  /\ task.error \in {TimeoutMsg, StoppedMsg}
  /\ \E r \in Runs : pipe[r].wrote = 100 /\ pipe[r].pc = "completed"

\* C11: once the deadline timer of a run has fired, whatever step of the
\* pipeline is outstanding, the status becomes error with the timeout
\* message, and that message is none of the messages of other errors.
C11_TimeoutError ==
  /\ [](TimeoutMsg \notin CatchMsgs \cup {StoppedMsg})
  /\ \A r \in Runs :
       (pipe[r].wpc = "timeout")
         ~> (task.status = "error" /\ task.error = TimeoutMsg)

C11_Witness ==
  /\ task.status = "error"
  /\ task.error = TimeoutMsg
  /\ \E r \in Runs : pipe[r].wpc = "timedOut" /\ pipe[r].pc \in {"create", "agent", "push"}

\* C12: after processTaskWithTimeout has returned neither timer is still
\* scheduled, and neither fires.
C12_TimersCancelled ==
  /\ [](\A r \in Runs :
          pipe[r].wpc \in {"done", "timedOut"}
            => pipe[r].deadline # "armed" /\ pipe[r].warn # "armed")
  /\ [][\A r \in Runs :
          pipe[r].wpc \in {"done", "timedOut"}
            => /\ pipe'[r].deadline = pipe[r].deadline
               /\ pipe'[r].warn = pipe[r].warn]_vars

\* C13: after the timeout error of a run is written its pipeline performs no
\* further step: no write to the row, no agent invocation, no push.
C13_TimeoutForceTerminates ==
  [][\A r \in Runs :
       (pipe[r].wpc = "timedOut" /\ pipe'[r].pc # pipe[r].pc)
         => /\ task' = task
            /\ pipe'[r].pc \notin {"agent", "push"}]_vars

\* C14: for a task without repository URL no step of a run is port detection,
\* commit-message generation or push, and a run whose agent invocation
\* succeeded goes on to status completed with progress 100.
C14_StandaloneCompletes ==
  /\ [][\A r \in Runs :
          ~cfg.repoUrl => pipe'[r].pc \notin {"detectPort", "commitMessage", "push"}]_vars
  /\ \A r \in Runs :
       (~cfg.repoUrl /\ pipe[r].pc = "prog90")
         ~> (task.status = "completed" /\ task.progress = 100)

C14_Witness ==
  /\ ~cfg.repoUrl
  /\ task.status = "completed"
  /\ task.progress = 100
  /\ \E r \in Runs : pipe[r].pc = "returned" /\ pipe[r].tw = 1 /\ ~pipe[r].sawStop

\* C15: commit-message generation and push happen only in a run of a task
\* with both a repository URL and a token.
C15_PushNeedsRepoAndToken ==
  [][\A r \in Runs :
       (pipe'[r].pc # pipe[r].pc /\ pipe'[r].pc \in {"commitMessage", "push"})
         => (cfg.repoUrl /\ cfg.githubToken)]_vars

C15_Witness ==
  /\ cfg.repoUrl
  /\ ~cfg.githubToken
  /\ task.status = "completed"
  /\ \E r \in Runs : pipe[r].pc = "returned" /\ pipe[r].tw = 1

\* C16: when the push reports pushFailed the run logs that the changes could
\* not be pushed, does not enter its catch block, and goes on to status
\* completed with progress 100.
C16_PushFailedNotFatal ==
  /\ [][\A r \in Runs, text \in ErrorTexts :
          PushResult(r, "pushFailed", text) => pipe'[r].pc = "logNotPushed"]_vars
  /\ [][\A r \in Runs :
          (pipe[r].pc = "logNotPushed" /\ pipe'[r].pc # pipe[r].pc)
            => pipe'[r].pc = "prog100"]_vars
  /\ \A r \in Runs :
       (pipe[r].pc = "logNotPushed")
         ~> (task.status = "completed" /\ task.progress = 100)

C16_Witness ==
  \E r \in Runs : pipe[r].pc = "logNotPushed" /\ task.status = "processing"

\* C17: after the completion write the orchestrator calls shutdownSandbox
\* exactly when keepAlive is not set.
C17_ShutdownUnlessKeepAlive ==
  [][\A r \in Runs :
       (pipe[r].pc = "shutdown" /\ pipe'[r].pc # pipe[r].pc)
         => /\ pipe[r].sandbox
            /\ pipe'[r].pc = "shuttingDown" <=> ~cfg.keepAlive
            /\ pipe'[r].pc = "returned" <=> cfg.keepAlive
            /\ env' = env]_vars

C17_Witness ==
  /\ cfg.keepAlive
  /\ task.status = "completed"
  /\ \E r \in Runs : pipe[r].pc = "returned" /\ env[r] = "active"

\* The message processTask throws with after a failure result or a thrown
\* value carrying the given error text.
C18_Causes(text) ==
  IF text = "none" THEN {CreateFailedMsg, AgentFailedMsg, UnexpectedMsg} ELSE {text}

\* C18: a failure result of creation or of the agent (not observed as
\* stopped), and every throw of a step, takes the run to its catch block with
\* the step's error text or the fixed default; the catch block writes status
\* error with that message, then calls shutdownSandbox exactly when the run
\* created an environment; the outcome of that call leaves the row unchanged.
C18_FailureEndsInError ==
  [][\A r \in Runs :
       /\ (pipe[r].pc = "agentFailed" /\ ~isTaskStopped /\ pipe'[r].pc # pipe[r].pc)
            => pipe'[r].pc = "catch" /\ pipe'[r].err = pipe[r].err
       /\ (pipe[r].pc # "catch" /\ pipe'[r].pc = "catch")
            => \E text \in ErrorTexts : pipe'[r].err \in C18_Causes(text) \cup {NoSandboxMsg}
       /\ (pipe[r].pc = "catch" /\ pipe'[r].pc # pipe[r].pc)
            => /\ task'.status = "error"
               /\ task'.error = pipe[r].err
               /\ pipe'[r].pc = "catchShutdown"
       /\ (pipe[r].pc = "catchShutdown" /\ pipe'[r].pc # pipe[r].pc)
            => /\ pipe'[r].pc = "shuttingDown" <=> env[r] # "none"
               /\ pipe'[r].pc = "returned" <=> env[r] = "none"
               /\ task' = task
       /\ (pipe[r].pc = "shuttingDown" /\ pipe'[r].pc # pipe[r].pc)
            => task' = task /\ pipe'[r].pc = "returned"]_vars

C18_Witness ==
  /\ task.status = "error"
  /\ task.error = AgentFailedMsg
  /\ \E r \in Runs : pipe[r].pc = "returned" /\ pipe[r].tw = 1 /\ env[r] = "active"

\* C19: at most one environment of the task is active in every state, and
\* no run is started while the status is processing.
C19_OneActiveEnvironment ==
  /\ [](Cardinality({r \in Runs : env[r] = "active"}) <= 1)
  /\ [][\A r \in Runs :
          (pipe[r].pc = "idle" /\ pipe'[r].pc # "idle") => task.status # "processing"]_vars

\* C20: processTask and processTaskWithTimeout together write a terminal
\* status at most once in a run, and not at all once the run has observed
\* stopped.
C20_OneTerminalWrite ==
  /\ [](\A r \in Runs : pipe[r].tw <= 1)
  /\ [][\A r \in Runs : pipe[r].sawStop => pipe'[r].tw = pipe[r].tw]_vars

\* A request of an authenticated user to one of the endpoints of a task:
\* GET, PATCH with action stop, DELETE, or the message list.
TaskRequest(userId, taskId) ==
  \/ GetTask(userId, taskId)
  \/ PatchStep(userId, taskId, "stop")
  \/ DeleteTask(userId, taskId)
  \/ GetMessages(userId, taskId)

\* C21: DELETE keeps the row and only sets deletedAt; on a soft-deleted task
\* every request of an authenticated caller, the owner included, to GET,
\* PATCH (stop), DELETE and the message list is answered 404 with no data,
\* and changes nothing.
C21_SoftDeletedNotFound ==
  [][/\ \A userId \in UserIds, taskId \in TaskIds :
          (DeleteTask(userId, taskId) /\ lastResp'.code = 200)
            => task' = [task EXCEPT !.deletedAt = TRUE]
     /\ \A userId \in UserIds \ {NoUser} :
          (task.deletedAt /\ TaskRequest(userId, TaskId))
            => /\ lastResp'.code = 404
               /\ lastResp'.log = "none"
               /\ task' = task
               /\ stop' = stop
               /\ env' = env]_vars

C21_Witness ==
  /\ task.deletedAt
  /\ task.status = "processing"
  /\ lastResp = Resp("PATCH", 404)

\* C22: every request of user U to GET, PATCH (stop) or DELETE of a task of
\* user V is answered 404 with no data, and changes neither the row nor a
\* stop request or environment of it.
C22_OtherUserNotFound ==
  [][\A taskId \in TaskIds :
       (\/ GetTask(Other, taskId)
        \/ PatchStep(Other, taskId, "stop")
        \/ DeleteTask(Other, taskId))
         => /\ lastResp'.code = 404
            /\ lastResp'.log = "none"
            /\ task' = task
            /\ stop' = stop
            /\ env' = env]_vars

C22_Witness ==
  /\ ~task.deletedAt
  /\ task.status = "processing"
  /\ lastResp = Resp("DELETE", 404)

\* The values processTask writes as progress checkpoints.
Checkpoints == {10, 15, 50, 90, 100}

\* Run r writes a progress checkpoint in this step.
CheckpointWrite(r) ==
  /\ pipe'[r].wrote \in Checkpoints
  /\ pipe'[r].wrote # pipe[r].wrote

\* C23: every progress checkpoint write of processTask (10, 15, 50, 90, 100)
\* is preceded, after the previous checkpoint, by a cancellation check that
\* read the task status; a check that observes stopped is followed by no
\* checkpoint of the run.
C23_CheckBeforeCheckpoint ==
  [][\A r \in Runs :
       CheckpointWrite(r) => (pipe[r].checked /\ ~pipe[r].sawStop)]_vars

\* The points of processTask at which it checks for cancellation.
StopChecks == {"check1", "check2", "check3", "check4", "agentFailed"}

\* C24: wherever the orchestrator observes stopped (before execution, after
\* the branch-name wait, after environment creation, before agent execution,
\* after a failed agent invocation) it writes nothing to the task and, when
\* the run has created an environment, goes on to shut it down.
C24_StopObservedCleansUp ==
  [][\A r \in Runs :
       (pipe[r].pc \in StopChecks /\ ~pipe[r].sawStop /\ pipe'[r].sawStop)
         => /\ task' = task
            /\ env[r] # "none" => pipe'[r].pc = "shuttingDown"]_vars

\* The steps of processTask after a successful agent invocation.
AfterAgentSuccess ==
  {"prog90", "readBranch", "commitMessage", "push", "pushLog", "prog100",
   "completed"}

\* C25: when stopped was persisted while the agent was invoked and the
\* invocation returns success, the orchestrator aborts: it writes no progress
\* and no status, and does not reach the push.
C25_StopBeforeAgentSuccessAborts ==
  [][\A r \in Runs :
       (/\ pipe[r].stopInFlight
        /\ isTaskStopped
        /\ pipe[r].pc \in AfterAgentSuccess
        /\ pipe'[r].pc # pipe[r].pc)
         => /\ task' = task
            /\ pipe'[r].pc \in {"returned", "shuttingDown"}]_vars

\* C26: a stop request never changes a task that has reached completed or
\* error into stopped.
C26_StopKeepsTerminal ==
  [][\A s \in Stops :
       (stopTaskExecution(s) /\ task.status \in {"completed", "error"})
         => task'.status # "stopped"]_vars

\* C27: the branch-name wait polls the persisted name a bounded number of
\* times and writes nothing. A name it finds is the name the environment is
\* created with and the persisted name is left as it is; when the window ends
\* without a name the environment is created on a name of its own, which is
\* then persisted. The branch of a created environment never changes.
C27_BranchNameWait ==
  [][\A r \in Runs :
       /\ (/\ pipe[r].pc = "waitBranch"
           /\ pipe'[r].pc # pipe[r].pc \/ pipe'[r].polls # pipe[r].polls)
            => /\ task' = task
               /\ pipe'[r].polls <= MaxPolls
               /\ IF task.branchName # "none"
                    THEN pipe'[r].pc = "check2"
                         /\ pipe'[r].aiBranchName = task.branchName
                    ELSE \/ pipe'[r].pc = "waitBranch"
                            /\ pipe'[r].polls = pipe[r].polls + 1
                         \/ pipe'[r].pc = "check2"
                            /\ pipe'[r].aiBranchName = "none"
       /\ (pipe[r].pc = "create" /\ pipe'[r].pc = "check3")
            => /\ task' = task
               /\ pipe'[r].branchName =
                    IF pipe[r].aiBranchName # "none" THEN pipe[r].aiBranchName
                    ELSE OwnBranchNames[r]
       /\ (pipe[r].pc = "update" /\ pipe'[r].pc # pipe[r].pc)
            => task'.branchName =
                 IF pipe[r].aiBranchName # "none" THEN task.branchName
                 ELSE pipe[r].branchName
       /\ pipe[r].branchName # "none"
            => pipe'[r].branchName = pipe[r].branchName]_vars

\* One run waited the whole window and persisted its environment's own name;
\* the other found that name and had its environment created with it.
C27_Witness ==
  \E r, q \in Runs :
    /\ pipe[r].aiBranchName = "none"
    /\ pipe[r].branchName = OwnBranchNames[r]
    /\ pipe[q].aiBranchName = OwnBranchNames[r]
    /\ pipe[q].branchName = OwnBranchNames[r]
    /\ pipe[q].pc = "agent"
    /\ task.branchName = OwnBranchNames[r]

\* C28: the name of an environment created without a predetermined name is
\* persisted only while the store holds no branch name: a name that appeared
\* after the branch-name wait ended is not overwritten.
C28_FallbackKeepsLaterName ==
  [][\A r \in Runs :
       (/\ pipe[r].pc = "update"
        /\ pipe'[r].pc # pipe[r].pc
        /\ pipe[r].aiBranchName = "none"
        /\ task.branchName # "none")
         => task'.branchName = task.branchName]_vars

\* C29: the pipeline does not wait for title generation: while the title of
\* a run is outstanding the run can enter processing.
C29_TitleNotAwaited ==
  \A r \in Runs : pipe[r].pc = "genTitle" => ENABLED StartProcessing(r)

\* C30: a failure of branch-name, title or commit-message generation never
\* fails the task: the fallback branch name and the fallback title are
\* persisted, the fallback commit message is the message of the push, and
\* the run goes on to the step that follows a successful generation.
C30_GenerationFallbacks ==
  [][\A r \in Runs :
       /\ (pipe[r].pc = "genBranch" /\ pipe'[r].pc # pipe[r].pc)
            => /\ pipe'[r].pc = "genTitle"
               /\ task' = [task EXCEPT !.branchName =
                             IF cfg.branchGenOk THEN "ai" ELSE "fallback"]
       /\ (pipe[r].pc = "genTitle" /\ pipe'[r].pc # pipe[r].pc)
            => /\ pipe'[r].pc = "start"
               /\ task' = [task EXCEPT !.title =
                             IF cfg.titleGenOk THEN "ai" ELSE "fallback"]
       /\ \A ok \in BOOLEAN :
            CommitMessageResult(r, ok)
              => /\ pipe'[r].pc = "push"
                 /\ pipe'[r].commitMessage = IF ok THEN "ai" ELSE "fallback"
                 /\ task' = task]_vars

\* All three generations failed and the run is about to push.
C30_Witness ==
  /\ ~cfg.branchGenOk
  /\ ~cfg.titleGenOk
  /\ task.branchName = "fallback"
  /\ task.title = "fallback"
  /\ task.status = "processing"
  /\ \E r \in Runs : pipe[r].pc = "push" /\ pipe[r].commitMessage = "fallback"

\* C31: every accepted trigger request leads to a terminal status, also when
\* an external call of the detached work never returns, as long as timers
\* fire and store writes succeed.
C31_AcceptedTerminates ==
  \A r \in Runs : (pipe[r].pc # "idle") ~> (task.status \in Terminal)

\* C32: a trigger request for a soft-deleted task is answered 404 and
\* schedules no pipeline.
C32_TriggerSkipsDeleted ==
  [][\A isInternal \in BOOLEAN, userId \in UserIds :
       (/\ task.deletedAt
        /\ PostAuthorised(isInternal, userId)
        /\ PostStep(isInternal, userId, TaskId))
         => /\ lastResp'.code = 404
            /\ pipe' = pipe
            /\ budget' = budget]_vars

\* C33: DELETE changes only the deletion marker of the row and nothing of a
\* running pipeline; on a soft-deleted task that is not stopped the
\* cancellation checks of the pipeline let it continue, and its progress and
\* status writes land as on any other task.
C33_DeleteOnlyMarks ==
  [][/\ \A userId \in UserIds, taskId \in TaskIds :
          (DeleteTask(userId, taskId) /\ lastResp'.code = 200)
            => /\ task' = [task EXCEPT !.deletedAt = TRUE]
               /\ pipe' = pipe
               /\ env' = env
               /\ stop' = stop
     /\ \A r \in Runs :
          /\ (/\ task.deletedAt
              /\ task.status # "stopped"
              /\ pipe[r].pc \in StopChecks
              /\ pipe'[r].pc # pipe[r].pc)
               => /\ pipe'[r].pc \notin {"returned", "shuttingDown"}
                  /\ ~pipe'[r].sawStop
          /\ (task.deletedAt /\ CheckpointWrite(r))
               => task'.progress = pipe'[r].wrote
          /\ (task.deletedAt /\ Complete(r))
               => task'.status = "completed"]_vars

\* The task was soft-deleted while its pipeline was at the agent invocation.
C33_Witness ==
  /\ task.deletedAt
  /\ task.status = "processing"
  /\ lastResp = Resp("DELETE", 200)
  /\ \E r \in Runs : pipe[r].pc = "agent" /\ pipe[r].sandbox

\* A cancellation check of run r whose read of the row succeeds or throws.
StopRead(r, readOk) ==
  \/ StopCheckRead(r, "check1", "waitBranch", readOk)
  \/ StopCheckRead(r, "check2", "prog15", readOk)
  \/ CheckAfterCreateRead(r, readOk)
  \/ StopCheckRead(r, "check4", "prog50", readOk)
  \/ StopCheckRead(r, "agentFailed", "catch", readOk)

\* C35: the cancellation check fails open: when the read inside
\* isTaskStopped throws, the check reports not stopped and the pipeline goes
\* on to the step that follows the check, also when the stored status is
\* stopped.
C35_StopCheckFailsOpen ==
  [][\A r \in Runs :
       StopRead(r, FALSE)
         => /\ ~pipe'[r].sawStop
            /\ pipe'[r].pc =
                 CASE pipe[r].pc = "check1" -> "waitBranch"
                   [] pipe[r].pc = "check2" -> "prog15"
                   [] pipe[r].pc = "check3" -> "update"
                   [] pipe[r].pc = "check4" -> "prog50"
                   [] OTHER -> "catch"
            /\ task' = task]_vars

\* Stopped was stored while the agent was invoked, the agent returned a
\* failure, and the check after it went on to throw the agent's error.
C35_Witness ==
  /\ task.status = "stopped"
  /\ \E r \in Runs :
       /\ pipe[r].stopInFlight
       /\ pipe[r].pc = "catch"
       /\ pipe[r].err = AgentFailedMsg
       /\ ~pipe[r].sawStop

C36_PushToCreatedBranch ==
  [][\A r \in Runs, text \in ErrorTexts,
        outcome \in {"pushed", "pushFailed", "failed", "throw"} :
       PushResult(r, outcome, text)
         => pipe[r].finalBranchName = pipe[r].branchName]_vars

\* C37: the sanitized prompt passed to the agent holds no backtick, no '$'
\* and no backslash, none of its lines begins with '-', and the other
\* characters of the prompt are kept in their order.
C37_SanitizedPrompt ==
  \A r \in Runs :
    pipe[r].pc = "agent"
      => LET out == pipe[r].sanitizedPrompt
         IN /\ \A i \in DOMAIN out : out[i] \notin {Backtick, Dollar, Backslash}
            /\ \A i \in DOMAIN out :
                 out[i] = Dash => (i > 1 /\ out[i - 1] # Newline)
            /\ SelectSeq(out, LAMBDA c : c \notin {Apostrophe, Space})
                 = SelectSeq(task.prompt,
                             LAMBDA c : c \notin {Backtick, Dollar, Backslash})

C37_Witness ==
  /\ task.prompt = <<Backslash, Dash, Newline, Dash>>
  /\ \E r \in Runs :
       /\ pipe[r].pc = "agent"
       /\ pipe[r].sanitizedPrompt = <<Space, Dash, Newline, Space, Dash>>

\* C38: a created task that runs without a follow-up message takes one unit
\* of the daily limit: a creation is refused only when the tasks created
\* today have reached the limit.
C38_OneUnitPerTask ==
  [][(createTaskHandler /\ quota'.last = "refused")
       => taskCount(quota) >= quota.limit]_vars

\* C39: without a search term the endpoint returns, for page and per_page of
\* at least 1, the repositories at positions (page-1)*per_page up to
\* page*per_page-1 of the user's recently-updated list.
C39_PageIsSliceOfList ==
  repoPage.code = 200
    => repoPage.repos =
         [i \in 1..(Min(repoPage.page * repoPage.perPage, repoPage.total)
                     - Min((repoPage.page - 1) * repoPage.perPage, repoPage.total))
            |-> (repoPage.page - 1) * repoPage.perPage + i]

====
